---- MODULE Spec2Model ----
(***************************************************************************)
(* Model of src/AS.py: the Bray-Liebhafsky kinetics function               *)
(* bray_liebhafsky_model and the simulation driver bl_model.               *)
(*                                                                         *)
(* Numbers are integers (Python ints are exact, so integer arguments are   *)
(* inputs the code accepts).  Sample times are exact rationals: a time is  *)
(* stored as its numerator over the call's denominator Den(n_points).      *)
(*                                                                         *)
(* numpy.linspace, scipy.integrate.solve_ivp and matplotlib are libraries  *)
(* the driver calls; they are modelled by their contract at the call site. *)
(* The solver is a deterministic explicit one-step scheme whose step size  *)
(* and stage coefficient (policy) are unknown but fixed for the process;   *)
(* a step whose result leaves the representable range fails the solve.     *)
(***************************************************************************)
EXTENDS Integers, Sequences, FiniteSets, TLC

VARIABLES pc,       \* position inside bl_model: idle, grid, solved, shown, done
          inp,      \* the parameters bound by the call (None when idle)
          caller,   \* the caller's own copies of the arguments it passed
          y0,       \* local y0      (line 66)
          t_span,   \* local t_span  (line 67)
          t_eval,   \* local t_eval  (line 68), numerators over Den(n_points)
          sol,      \* local sol     (line 70), None before solve_ivp returns
          plotted,  \* what the four panels were drawn from, None if nothing
          outcome,  \* none | returned | ValueError | IndexError
          retval,   \* the value bl_model handed back to its caller
          log,      \* the library calls of the current call, in order
          shows,    \* plt.show() invocations of the process so far (capped)
          policy,   \* the solver's fixed stepping policy [h, a]
          ref,      \* a remembered completed call (for comparing two calls)
          ev        \* the last direct evaluation of the kinetics function

vars == <<pc, inp, caller, y0, t_span, t_eval, sol, plotted, outcome, retval,
          log, shows, policy, ref, ev>>

\* Python's None, and an optional value as a set of at most one element.
None == {}

Some(x) == {x}

Get(s) == CHOOSE x \in s : TRUE

----------------------------------------------------------------------------
(* Bounds of the model *)

MaxT == 2
MaxPoints == 3
MaxH == 2
MaxAbs == 40
MaxShows == 2

----------------------------------------------------------------------------
(* Input domains *)

YDomain == {<<u, v, z, w>> : u \in {0, 1}, v \in {0, 1}, z \in {0, 1}, w \in {0, 2}}

RDomain == {<<r1, 1, r3, r4, 1, r6, 0>> :
               r1 \in {0, 1}, r3 \in {0, 2}, r4 \in {-1, 1}, r6 \in {0, 1}}

MethodDomain == {"RK45", "BDF", "euler"}

Params(Y, R, T, N, M, P) ==
    [U0 : {y[1] : y \in Y}, V0 : {y[2] : y \in Y}, Z0 : {y[3] : y \in Y},
     W0 : {y[4] : y \in Y}, R : R, t_max : T, n_points : N, method : M, plot : P]

InputDomain == Params(YDomain, RDomain, 1..MaxT, 1..MaxPoints, MethodDomain, BOOLEAN)

DetDomain == Params({<<1, v, 1, 2>> : v \in {0, 1}},
                    {<<1, 1, 2, 1, 1, 1, 0>>, <<0, 1, 0, -1, 1, 1, 0>>},
                    {MaxT}, {2, MaxPoints}, {"RK45"}, BOOLEAN)

KinY == {<<u, v, z, w>> : u \in {-1, 0, 2}, v \in {-1, 0, 3}, z \in {0, 2}, w \in {-1, 2}}

KinR == {<<r1, r2, r3, r4, r5, r6, r7>> :
            r1 \in {0, 2}, r2 \in {-1, 1}, r3 \in {0, 3}, r4 \in {1, 2},
            r5 \in {0, 1}, r6 \in {-1, 2}, r7 \in {0, 1}}

KinT == {0, 5}

----------------------------------------------------------------------------
(* The kinetics function, lines 7-36 *)

bray_swapped(t, y, R) ==
    LET W == y[1]
        V == y[2]
        Z == y[3]
        U == y[4]
    IN  <<R[1] * V + R[3] * U - R[2] * U * V - R[4] * (U * U),
          R[5] * Z - R[1] * V - R[2] * U * V,
          R[3] * U - (R[5] + R[7]) * Z,
          -R[6] * W>>

bray_sign(t, y, R) ==
    LET U == y[1]
        V == y[2]
        Z == y[3]
        W == y[4]
    IN  <<R[1] * V + R[3] * U - R[2] * U * V - R[4] * (U * U),
          R[5] * Z - R[1] * V + R[2] * U * V,
          R[3] * U - (R[5] + R[7]) * Z,
          -R[6] * W>>

bray_liebhafsky_model(t, y, R) ==
    LET U == y[1]
        V == y[2]
        Z == y[3]
        W == y[4]
        dUdt == R[1] * V + R[3] * U - R[2] * U * V - R[4] * (U * U)
        dVdt == R[5] * Z - R[1] * V - R[2] * U * V
        dZdt == R[3] * U - (R[5] + R[7]) * Z
        dWdt == -R[6] * W
    IN  <<dUdt, dVdt, dZdt, dWdt>>

----------------------------------------------------------------------------
(* np.linspace(0, t_max, n_points), line 68 *)

Den(num) == IF num > 1 THEN num - 1 ELSE 1

linspace(start, stop, num) ==
    [i \in 1..num |->
        IF num > 1 /\ i = num THEN stop * Den(num)
        ELSE start * Den(num) + (i - 1) * (stop - start)]

----------------------------------------------------------------------------
(* solve_ivp(fun, t_span, y0, args=..., t_eval=..., method=...), lines 70-77 *)

METHODS == {"RK23", "RK45", "DOP853", "Radau", "BDF", "LSODA"}

Min(a, b) == IF a < b THEN a ELSE b

Finite(y) == \A k \in 1..4 : -MaxAbs <= y[k] /\ y[k] <= MaxAbs

VecAdd(y, c, k) == [j \in 1..4 |-> y[j] + c * k[j]]

searchsorted(a, t) == Cardinality({j \in 1..Len(a) : a[j] <= t})

Strict(a) == \A j \in 1..(Len(a) - 1) : a[j] < a[j + 1]

RECURSIVE SolverLoop(_, _, _, _, _, _, _, _)
SolverLoop(R, tf, te, pol, t, y, i, acc) ==
    IF t = tf
    THEN [acc EXCEPT !.status = 0]
    ELSE LET t_new == Min(t + pol.h, tf)
             hs    == t_new - t
             K1    == bray_liebhafsky_model(t, y, R)
             K2    == bray_liebhafsky_model(t_new, VecAdd(y, pol.a * hs, K1), R)
             y_new == VecAdd(y, hs, K2)
             i_new == searchsorted(te, t_new)
             step  == [j \in 1..(i_new - i) |-> te[i + j]]
             vals  == [j \in 1..(i_new - i) |-> VecAdd(y, te[i + j] - t, K2)]
             evald == [acc EXCEPT !.nfev = @ + 2]
         IN  IF ~Finite(y_new)
             THEN [evald EXCEPT !.status = -1]
             ELSE SolverLoop(R, tf, te, pol, t_new, y_new, i_new,
                             [evald EXCEPT !.ts = @ \o step, !.ys = @ \o vals])

solve_ivp(span, y_init, R, te, method, den, pol) ==
    IF method \notin METHODS
    THEN [raised |-> Some("ValueError")]
    ELSE IF (\E j \in 1..Len(te) : te[j] < span[1] * den \/ te[j] > span[2] * den)
            \/ ~Strict(te)
    THEN [raised |-> Some("ValueError")]
    ELSE LET acc == SolverLoop(R, span[2] * den, te, pol, span[1] * den, y_init, 0,
                               [ts |-> <<>>, ys |-> <<>>, nfev |-> 1, status |-> 1])
         IN  [raised  |-> None,
              t       |-> acc.ts,
              y       |-> IF acc.ts = <<>> THEN <<>>
                          ELSE [k \in 1..4 |-> [j \in 1..Len(acc.ys) |-> acc.ys[j][k]]],
              status  |-> acc.status,
              success |-> acc.status >= 0,
              nfev    |-> acc.nfev]

----------------------------------------------------------------------------
(* bl_model, lines 39-101 *)

y0_stale(p) == <<p.U0 + shows, p.V0, p.Z0, p.W0>>

y0_of(p) == <<p.U0, p.V0, p.Z0, p.W0>>

Init ==
    /\ pc = "idle"
    /\ inp = None
    /\ caller = None
    /\ y0 = None
    /\ t_span = None
    /\ t_eval = None
    /\ sol = None
    /\ plotted = None
    /\ outcome = "none"
    /\ retval = None
    /\ log = <<>>
    /\ shows = 0
    /\ policy \in [h : 1..MaxH, a : {0, 1}]
    /\ ref = None
    /\ ev = None

\* The call binds the parameters and runs lines 66-68.
Call(D) ==
    /\ pc = "idle"
    /\ \E p \in D :
         /\ inp' = p
         /\ caller' = p
         /\ y0' = y0_of(p)
         /\ t_span' = <<0, p.t_max>>
         /\ t_eval' = linspace(0, p.t_max, p.n_points)
    /\ log' = <<"linspace">>
    /\ pc' = "grid"
    /\ sol' = None
    /\ plotted' = None
    /\ outcome' = "none"
    /\ retval' = None
    /\ UNCHANGED <<shows, policy, ref, ev>>

InvokeSolver_fallback ==
    /\ pc = "grid"
    /\ LET m == IF inp.method \in METHODS THEN inp.method ELSE "RK45"
           r == solve_ivp(t_span, y0, inp.R, t_eval, m, Den(inp.n_points), policy)
       IN  /\ sol' = Some(r)
           /\ pc' = "solved"
           /\ UNCHANGED outcome
    /\ log' = Append(log, "solve_ivp")
    /\ UNCHANGED <<inp, caller, y0, t_span, t_eval, plotted, retval, shows, policy, ref, ev>>

\* Lines 70-77: an exception of solve_ivp propagates out of bl_model.
InvokeSolver ==
    /\ pc = "grid"
    /\ LET r == solve_ivp(t_span, y0, inp.R, t_eval, inp.method, Den(inp.n_points), policy)
       IN  IF r.raised # None
           THEN /\ outcome' = Get(r.raised)
                /\ pc' = "done"
                /\ UNCHANGED sol
           ELSE /\ sol' = Some(r)
                /\ pc' = "solved"
                /\ UNCHANGED outcome
    /\ log' = Append(log, "solve_ivp")
    /\ UNCHANGED <<inp, caller, y0, t_span, t_eval, plotted, retval, shows, policy, ref, ev>>

Plot_always ==
    /\ pc = "solved"
    /\ log' = Append(log, "plot")
    /\ IF Get(sol).y = <<>>
       THEN /\ outcome' = "IndexError"
            /\ pc' = "done"
            /\ UNCHANGED <<plotted, shows>>
       ELSE /\ plotted' = Some([t |-> Get(sol).t, y |-> Get(sol).y])
            /\ shows' = Min(shows + 1, MaxShows)
            /\ pc' = "shown"
            /\ UNCHANGED outcome
    /\ UNCHANGED <<inp, caller, y0, t_span, t_eval, sol, retval, policy, ref, ev>>

\* Lines 79-101: the four panels are drawn from sol.t and sol.y[0..3].
Plot ==
    /\ pc = "solved"
    /\ inp.plot
    /\ log' = Append(log, "plot")
    /\ IF Get(sol).y = <<>>
       THEN /\ outcome' = "IndexError"
            /\ pc' = "done"
            /\ UNCHANGED <<plotted, shows>>
       ELSE /\ plotted' = Some([t |-> Get(sol).t, y |-> Get(sol).y])
            /\ shows' = Min(shows + 1, MaxShows)
            /\ pc' = "shown"
            /\ UNCHANGED outcome
    /\ UNCHANGED <<inp, caller, y0, t_span, t_eval, sol, retval, policy, ref, ev>>

\* The function body ends without a return statement.
Return ==
    /\ \/ pc = "solved" /\ ~inp.plot
       \/ pc = "shown"
    /\ retval' = None
    /\ outcome' = "returned"
    /\ pc' = "done"
    /\ UNCHANGED <<inp, caller, y0, t_span, t_eval, sol, plotted, log, shows, policy, ref, ev>>

Next == Call(InputDomain) \/ InvokeSolver \/ Plot \/ Return

Spec == Init /\ [][Next]_vars

----------------------------------------------------------------------------
(* A process that calls bl_model repeatedly *)

Remember ==
    /\ pc = "done"
    /\ ref = None
    /\ ref' = Some([inp |-> inp, outcome |-> outcome, sol |-> sol, retval |-> retval,
                    shows |-> shows])
    /\ UNCHANGED <<pc, inp, caller, y0, t_span, t_eval, sol, plotted, outcome, retval,
                   log, shows, policy, ev>>

Again ==
    /\ pc = "done"
    /\ pc' = "idle"
    /\ UNCHANGED <<inp, caller, y0, t_span, t_eval, sol, plotted, outcome, retval,
                   log, shows, policy, ref, ev>>

NextDet == Call(DetDomain) \/ InvokeSolver \/ Plot \/ Return \/ Remember \/ Again

SpecDet == Init /\ [][NextDet]_vars

----------------------------------------------------------------------------
(* Direct calls of the kinetics function *)

Evaluate ==
    /\ ev = None
    /\ \E t \in KinT, y \in KinY, R \in KinR :
         ev' = Some([t |-> t, y |-> y, R |-> R, out |-> bray_liebhafsky_model(t, y, R)])
    /\ UNCHANGED <<pc, inp, caller, y0, t_span, t_eval, sol, plotted, outcome, retval,
                   log, shows, policy, ref>>

NextKin == Evaluate

SpecKin == Init /\ [][NextKin]_vars

----------------------------------------------------------------------------
(* Properties *)

Started == pc # "idle"

Full2 == <<"linspace", "solve_ivp">>

Full3 == <<"linspace", "solve_ivp", "plot">>

IsPrefix(a, b) == Len(a) <= Len(b) /\ \A j \in 1..Len(a) : a[j] = b[j]

\* C1: every evaluation of the kinetics function returns exactly the 4-vector
\* (R1*V + R3*U - R2*U*V - R4*U^2, R5*Z - R1*V - R2*U*V, R3*U - (R5+R7)*Z, -R6*W),
\* in that order, whatever t, y and R are (t does not occur in the result).
C1_KineticsFormula ==
    \A e \in ev :
        LET U == e.y[1]
            V == e.y[2]
            Z == e.y[3]
            W == e.y[4]
        IN  /\ Len(e.out) = 4
            /\ e.out[1] = e.R[1] * V + e.R[3] * U - e.R[2] * U * V - e.R[4] * U * U
            /\ e.out[2] = e.R[5] * Z - e.R[1] * V - e.R[2] * U * V
            /\ e.out[3] = e.R[3] * U - (e.R[5] + e.R[7]) * Z
            /\ e.out[4] = -e.R[6] * W

C1_Witness ==
    \E e \in ev : e.t = 5 /\ e.y = <<2, 3, 2, -1>> /\ e.R = <<2, -1, 3, 2, 1, 2, 1>>
                  /\ e.out = <<10, 2, 2, 2>>

\* C2: a call with n_points < 2 or t_max <= 0 fails with a ConfigurationError
\* before any integration work: the solver is never invoked, the kinetics
\* function is never evaluated and nothing is plotted.
C2_RejectsBadConfig ==
    (Started /\ (inp.n_points < 2 \/ inp.t_max <= 0)) =>
        /\ \A j \in 1..Len(log) : log[j] # "solve_ivp"
        /\ sol = None
        /\ plotted = None
        /\ (pc = "done" => outcome = "ConfigurationError")

\* C3: whenever the solver fails to produce the full trajectory the call
\* fails with an IntegrationError, and nothing is plotted from the failed solve.
C3_FailedSolveRaises ==
    \A s \in sol : s.status = -1 =>
        /\ plotted = None
        /\ \A j \in 1..Len(log) : log[j] # "plot"
        /\ (pc = "done" => outcome = "IntegrationError")

C5_SampleCount ==
    \A s \in sol : (inp.n_points >= 2 /\ inp.t_max > 0) =>
        /\ Len(s.t) = inp.n_points
        /\ s.t[1] = 0
        /\ s.t[inp.n_points] = inp.t_max * Den(inp.n_points)
        /\ Strict(s.t)

\* C6: a call that completes without error hands the Trajectory (the time
\* sequence and the 4 aligned value sequences of length n_points) to its caller.
C6_TrajectoryReturned ==
    (pc = "done" /\ outcome = "returned") =>
        /\ retval = Some([t |-> Get(sol).t, y |-> Get(sol).y])
        /\ Len(Get(sol).y) = 4
        /\ \A k \in 1..4 : Len(Get(sol).y[k]) = Len(Get(sol).t)

NonNegative(R) == \A i \in 1..7 : R[i] >= 0

\* C8: with U0 = V0 = Z0 = 0 and all R >= 0 the kinetics function yields
\* dU/dt = dV/dt = dZ/dt = 0 at the initial state, and every U, V and Z sample
\* the solver reports (and every one plotted) is 0, whatever steps it takes.
C8_ZeroFixedPoint ==
    (Started /\ inp.U0 = 0 /\ inp.V0 = 0 /\ inp.Z0 = 0 /\ NonNegative(inp.R)) =>
        /\ \A k \in 1..3 : bray_liebhafsky_model(0, y0, inp.R)[k] = 0
        /\ \A s \in sol \cup plotted :
              \A k \in 1..Len(s.y) : k <= 3 =>
                  \A j \in 1..Len(s.y[k]) : s.y[k][j] = 0

C8_Witness ==
    /\ pc = "done"
    /\ inp.U0 = 0 /\ inp.V0 = 0 /\ inp.Z0 = 0 /\ inp.W0 = 2
    /\ inp.R = <<1, 1, 2, 1, 1, 1, 0>>
    /\ inp.n_points = MaxPoints
    /\ \E s \in plotted : Len(s.t) = MaxPoints /\ s.y[4][1] = 2 /\ s.y[4][MaxPoints] # 2

C10_StepOrder ==
    Started =>
        /\ IsPrefix(log, Full3)
        /\ Len(log) >= 1
        /\ (pc # "grid" => Len(log) >= 2)
        /\ (Len(log) = 3 => inp.plot /\ sol # None)
        /\ (plotted # None => Len(log) = 3)
        /\ (outcome = "returned" => log = IF inp.plot THEN Full3 ELSE Full2)
        /\ caller = inp
        /\ y0 = <<caller.U0, caller.V0, caller.Z0, caller.W0>>

C10_Witness ==
    /\ pc = "done"
    /\ outcome = "returned"
    /\ inp.plot
    /\ log = Full3
    /\ \E s \in plotted : Len(s.t) = MaxPoints

====
